---- MODULE Spec2Model ----
(***************************************************************************)
(* A model of PaulFilms/MySQLite (src/mysqlite/mysqlite.py): the SQL       *)
(* object (execute, insert, update, get_json, update_json) over one table  *)
(* with a key column "k" and a JSON document column "d", and the DDL       *)
(* compiler SCHEMA.get_sql_create.                                         *)
(*                                                                         *)
(* Representation.                                                         *)
(*  - An SQL value is a record [t, i, s]: NULL, an integer i, or a text s. *)
(*    A text is the sequence of its tokens; the empty text is << >>.       *)
(*  - A Python dict with string keys is a function from a finite set of    *)
(*    strings; dict equality ignores insertion order, and so does the      *)
(*    model (json.dumps writes the keys in the order KeyOrder).            *)
(*  - A Python mapping passed as `values` or `where` keeps its iteration   *)
(*    order: it is a sequence of <<column, value>> pairs, columns distinct.*)
(*  - An SQL statement is a record of what the f-string holds: the verb,   *)
(*    the column list (SET / SELECT / INSERT columns), whether the text    *)
(*    has a WHERE keyword, and the columns of the WHERE conjunction.       *)
(*                                                                         *)
(* Specifications.                                                         *)
(*  - Spec: one caller; insert, update, get_json and update_json each run  *)
(*    from call to return as one step.                                     *)
(*  - SpecConc: two callers of update_json, one step per execute call.     *)
(*  - SpecExec: two threads in execute on one SQL object, one step per     *)
(*    line of the connection wrapper.                                      *)
(*  - SpecDDL: SCHEMA.get_sql_create applied to an Enum class.             *)
(***************************************************************************)
EXTENDS Integers, Sequences, FiniteSets, TLC

\* ------------------------------------------------------------------ bounds
MaxRows == 2        \* rows the table may hold

\* ------------------------------------------------------------ SQL values
NullV == [t |-> "null", i |-> 0, s |-> << >>]
IntV(n) == [t |-> "int", i |-> n, s |-> << >>]
TextV(toks) == [t |-> "text", i |-> 0, s |-> toks]

\* Python truthiness of a fetched value: None, 0 and '' are falsy.
Truthy(v) ==
    CASE v.t = "null" -> FALSE
      [] v.t = "int"  -> v.i # 0
      [] v.t = "text" -> v.s # << >>

\* ------------------------------------------------------- JSON documents
DocKeys  == {"a", "b"}
KeyOrder == <<"a", "b">>
DocVals  == {1, 2}
Docs     == UNION {[S -> DocVals] : S \in SUBSET DocKeys}
EmptyDoc == [x \in {} |-> 0]

\* The decimal text of a small number, and its inverse.
NumStr == <<"1", "2", "3", "4", "5", "6", "7", "8", "9">>
StrNum(tok) == CHOOSE n \in DOMAIN NumStr : NumStr[n] = tok

RECURSIVE JoinSeqs(_, _)
\* sep.join(parts) over token sequences.
JoinSeqs(parts, sep) ==
    IF parts = << >> THEN << >>
    ELSE IF Len(parts) = 1 THEN parts[1]
    ELSE parts[1] \o sep \o JoinSeqs(Tail(parts), sep)

\* json.dumps(d): '{' key ':' value (',' key ':' value)* '}'.
Dumps(d) ==
    LET ks    == SelectSeq(KeyOrder, LAMBDA x : x \in DOMAIN d)
        items == [j \in 1..Len(ks) |-> <<ks[j], ":", NumStr[d[ks[j]]]>>]
    IN  <<"{">> \o JoinSeqs(items, <<",">>) \o <<"}">>

\* json_dict[k] = v
Assign(d, key, v) == [x \in DOMAIN d \cup {key} |-> IF x = key THEN v ELSE d[x]]

RECURSIVE ParseItems(_, _)
ParseItems(toks, acc) ==
    IF Len(toks) < 3 THEN acc
    ELSE ParseItems(IF Len(toks) > 4 THEN SubSeq(toks, 5, Len(toks)) ELSE << >>,
                    Assign(acc, toks[1], StrNum(toks[3])))

\* json.loads(text) of an object text: the part between the braces, item by item.
Loads(toks) == ParseItems(SubSeq(toks, 2, Len(toks) - 1), EmptyDoc)

\* --------------------------------------------------------------- tables
Cols    == {"k", "d"}
KeyVals == {IntV(1), IntV(2)}
DocTexts == {TextV(Dumps(d)) : d \in Docs}
\* What the document column may hold: NULL, the empty text, a document text.
DocColVals == {NullV, TextV(<< >>)} \cup DocTexts

\* A Python mapping over columns {c: v, ...} in iteration order.
MapKeys(m) == [j \in 1..Len(m) |-> m[j][1]]
MapVals(m) == [j \in 1..Len(m) |-> m[j][2]]

\* ------------------------------------------------------- SQL statements
\* ', '.join(f"{k}=?" ...) and ' AND '.join(f"{k}=?" ...): one "col=?" per key.
ValuesStr(values) == MapKeys(values)
WhereStr(where) == MapKeys(where)

\* f"SELECT COUNT(*) FROM {table} WHERE {where_str}"
CountSql(where_str) ==
    [verb |-> "COUNT", cols |-> << >>, whereKw |-> TRUE, where |-> where_str]
\* f"SELECT {json_column} FROM {table} WHERE {where_column}=?"
SelectSql(col, where_str) ==
    [verb |-> "SELECT", cols |-> <<col>>, whereKw |-> TRUE, where |-> where_str]
\* f"UPDATE {table} SET {values_str} WHERE {where_str};"
UpdateSql(values_str, where_str) ==
    [verb |-> "UPDATE", cols |-> values_str, whereKw |-> TRUE, where |-> where_str]
\* f"INSERT INTO {table} ({columns}) VALUES ({placeholders});"
InsertSql(columns) ==
    [verb |-> "INSERT", cols |-> columns, whereKw |-> FALSE, where |-> << >>]

\* The engine rejects a statement whose text is not SQL: a WHERE keyword with
\* no condition after it, an UPDATE with no assignment, an INSERT with no column.
SyntaxError(sql) ==
    \/ sql.whereKw /\ sql.where = << >>
    \/ sql.verb \in {"UPDATE", "INSERT"} /\ sql.cols = << >>
\* Placeholders of a statement, in text order: the column list's, then WHERE's.
NumPlaceholders(sql) ==
    (IF sql.verb \in {"UPDATE", "INSERT"} THEN Len(sql.cols) ELSE 0) + Len(sql.where)
\* The parameters bound to the WHERE placeholders: those after the column list's.
WhereParams(sql, params) == SubSeq(params, Len(params) - Len(sql.where) + 1, Len(params))

\* col = ? AND ...: NULL never equals anything.
Matches(row, sql, params) ==
    \A j \in 1..Len(sql.where) :
        LET p == WhereParams(sql, params)[j]
        IN  p.t # "null" /\ row[sql.where[j]] = p

RECURSIVE SetCols(_, _, _, _)
SetCols(row, cols, params, j) ==
    IF j > Len(cols) THEN row
    ELSE SetCols([row EXCEPT ![cols[j]] = params[j]], cols, params, j + 1)

\* sqlite3.Cursor.execute on a fresh connection over the committed table:
\* [err, rows, tbl], tbl the table as the connection sees it afterwards.
DriverRun(tbl, sql, params) ==
    IF SyntaxError(sql) \/ Len(params) # NumPlaceholders(sql)
    THEN [err |-> TRUE, rows |-> << >>, tbl |-> tbl]
    ELSE LET hit == SelectSeq(tbl, LAMBDA r : Matches(r, sql, params))
         IN CASE sql.verb = "COUNT" ->
                   [err |-> FALSE, rows |-> << <<IntV(Len(hit))>> >>, tbl |-> tbl]
              [] sql.verb = "SELECT" ->
                   [err |-> FALSE,
                    rows |-> [j \in 1..Len(hit) |-> <<hit[j][sql.cols[1]]>>],
                    tbl |-> tbl]
              [] sql.verb = "UPDATE" ->
                   [err |-> FALSE, rows |-> << >>,
                    tbl |-> [j \in 1..Len(tbl) |->
                               IF Matches(tbl[j], sql, params)
                               THEN SetCols(tbl[j], sql.cols, params, 1)
                               ELSE tbl[j]]]
              [] sql.verb = "INSERT" ->
                   [err |-> FALSE, rows |-> << >>,
                    tbl |-> Append(tbl, SetCols([k |-> NullV, d |-> NullV],
                                                sql.cols, params, 1))]

\* ---------------------------------------------------------- SQL.execute
\* One execute call run without interruption (lines 61-73, 102-110): connect,
\* run the statement, fetch, commit when asked, close. A failure of the driver
\* propagates (err) and the connection is closed with nothing committed; a
\* write that is not committed is discarded by the close.
\* fetch 1 is fetchone() (None when there is no row), 2 fetchall(), 0 nothing.
Execute(tbl, sql, values, fetch, commit) ==
    LET r == DriverRun(tbl, sql, IF Len(values) # 0 THEN values ELSE << >>)
        entry == [sql |-> sql, params |-> values, commit |-> commit, err |-> r.err]
    IN  [err   |-> r.err,
         none  |-> r.err \/ fetch = 0 \/ (fetch = 1 /\ r.rows = << >>),
         rows  |-> IF r.err \/ fetch = 0 THEN << >>
                   ELSE IF fetch = 1 /\ r.rows # << >> THEN <<r.rows[1]>>
                   ELSE r.rows,
         tbl   |-> IF ~r.err /\ commit THEN r.tbl ELSE tbl,
         entry |-> entry]

\* What a call returns: None, a dict, a bool, or a raised exception.
RetNone == [kind |-> "none", doc |-> EmptyDoc, b |-> FALSE]
RetDoc(d) == [kind |-> "doc", doc |-> d, b |-> FALSE]
RetBool(v) == [kind |-> "bool", doc |-> EmptyDoc, b |-> v]
RetRaise == [kind |-> "raise", doc |-> EmptyDoc, b |-> FALSE]
Done(tbl, ret, log) == [tbl |-> tbl, ret |-> ret, log |-> log]

\* SQL.insert (lines 137-141)
InsertOp(tbl, values) ==
    LET e == Execute(tbl, InsertSql(MapKeys(values)), MapVals(values), 0, TRUE)
    IN  Done(e.tbl, IF e.err THEN RetRaise ELSE RetNone, <<e.entry>>)

\* A slip in line 168: the WHERE values before the SET values.
UpdateParamsWhereFirst(values, where) == MapVals(where) \o MapVals(values)

\* The parameter list of the UPDATE: list(values.values()) + list(where.values())
UpdateParams(values, where) == MapVals(values) \o MapVals(where)

\* A slip in lines 159-167: the WHERE clause left out when `where` is empty.
UpdateOpOptionalWhere(tbl, values, where) ==
    LET values_str == ValuesStr(values)
        where_str  == WhereStr(where)
        kw == where_str # << >>
        c == Execute(tbl, [CountSql(where_str) EXCEPT !.whereKw = kw],
                     MapVals(where), 1, FALSE)
    IN  IF c.err \/ c.none THEN Done(tbl, RetRaise, <<c.entry>>)
        ELSE IF c.rows[1][1].i # 0
        THEN LET u == Execute(tbl, [UpdateSql(values_str, where_str) EXCEPT !.whereKw = kw],
                              UpdateParams(values, where), 0, TRUE)
             IN  Done(u.tbl, IF u.err THEN RetRaise ELSE RetNone, <<c.entry, u.entry>>)
        ELSE Done(tbl, RetNone, <<c.entry>>)

\* SQL.update (lines 158-171)
UpdateOp(tbl, values, where) ==
    LET values_str == ValuesStr(values)
        where_str  == WhereStr(where)
        c == Execute(tbl, CountSql(where_str), MapVals(where), 1, FALSE)
    IN  IF c.err \/ c.none THEN Done(tbl, RetRaise, <<c.entry>>)
        ELSE IF c.rows[1][1].i # 0
        THEN LET u == Execute(tbl, UpdateSql(values_str, where_str),
                              UpdateParams(values, where), 0, TRUE)
             IN  Done(u.tbl, IF u.err THEN RetRaise ELSE RetNone, <<c.entry, u.entry>>)
        ELSE Done(tbl, RetNone, <<c.entry>>)

\* A slip in line 191: the guard `== 0` in place of `!= 1`.
GetJsonOpAnyRow(tbl, json_column, where_column, where_value) ==
    LET c == Execute(tbl, CountSql(<<where_column>>), <<where_value>>, 1, FALSE)
    IN  IF c.err \/ c.none THEN Done(tbl, RetRaise, <<c.entry>>)
        ELSE IF c.rows[1][1].i = 0 THEN Done(tbl, RetNone, <<c.entry>>)
        ELSE LET s == Execute(tbl, SelectSql(json_column, <<where_column>>),
                              <<where_value>>, 1, FALSE)
                 log == <<c.entry, s.entry>>
             IN  IF s.err \/ s.none THEN Done(tbl, RetRaise, log)
                 ELSE IF ~Truthy(s.rows[1][1]) THEN Done(tbl, RetNone, log)
                 ELSE Done(tbl, RetDoc(Loads(s.rows[1][1].s)), log)

\* SQL.get_json (lines 191-198)
GetJsonOp(tbl, json_column, where_column, where_value) ==
    LET c == Execute(tbl, CountSql(<<where_column>>), <<where_value>>, 1, FALSE)
    IN  IF c.err \/ c.none THEN Done(tbl, RetRaise, <<c.entry>>)
        ELSE IF c.rows[1][1].i # 1 THEN Done(tbl, RetNone, <<c.entry>>)
        ELSE LET s == Execute(tbl, SelectSql(json_column, <<where_column>>),
                              <<where_value>>, 1, FALSE)
                 log == <<c.entry, s.entry>>
             IN  IF s.err \/ s.none THEN Done(tbl, RetRaise, log)
                 ELSE IF ~Truthy(s.rows[1][1]) THEN Done(tbl, RetNone, log)
                 ELSE Done(tbl, RetDoc(Loads(s.rows[1][1].s)), log)

RECURSIVE MergeItems(_, _, _)
\* for k, v in update_values.items(): json_dict[k] = v
MergeItems(json_dict, update_values, todo) ==
    IF todo = {} THEN json_dict
    ELSE LET x == CHOOSE y \in todo : TRUE
         IN  MergeItems(Assign(json_dict, x, update_values[x]), update_values,
                        todo \ {x})

\* A slip in lines 226-230: the patch replaces the document.
MergeDocReplace(got, update_values) == update_values

\* Lines 226-230: `not json_dict` holds of None and of the empty dict.
MergeDoc(got, update_values) ==
    IF got.kind # "doc" \/ got.doc = EmptyDoc THEN update_values
    ELSE MergeItems(got.doc, update_values, DOMAIN update_values)

\* A slip in line 221: the guard `== 0` in place of `!= 1`.
UpdateJsonOpAnyRow(tbl, json_column, where_column, where_value, update_values) ==
    LET c == Execute(tbl, CountSql(<<where_column>>), <<where_value>>, 1, FALSE)
    IN  IF c.err \/ c.none THEN Done(tbl, RetRaise, <<c.entry>>)
        ELSE IF c.rows[1][1].i = 0 THEN Done(tbl, RetBool(FALSE), <<c.entry>>)
        ELSE LET g == GetJsonOp(tbl, json_column, where_column, where_value)
                 json_dict == MergeDoc(g.ret, update_values)
                 u == UpdateOp(tbl, << <<json_column, TextV(Dumps(json_dict))>> >>,
                               << <<where_column, where_value>> >>)
             IN  Done(u.tbl, RetBool(TRUE), <<c.entry>> \o g.log \o u.log)

\* SQL.update_json (lines 221-233)
UpdateJsonOp(tbl, json_column, where_column, where_value, update_values) ==
    LET c == Execute(tbl, CountSql(<<where_column>>), <<where_value>>, 1, FALSE)
    IN  IF c.err \/ c.none THEN Done(tbl, RetRaise, <<c.entry>>)
        ELSE IF c.rows[1][1].i # 1 THEN Done(tbl, RetBool(FALSE), <<c.entry>>)
        ELSE LET g == GetJsonOp(tbl, json_column, where_column, where_value)
             IN  IF g.ret.kind = "raise" THEN Done(tbl, RetRaise, <<c.entry>> \o g.log)
                 ELSE LET json_dict == MergeDoc(g.ret, update_values)
                          u == UpdateOp(tbl,
                                        << <<json_column, TextV(Dumps(json_dict))>> >>,
                                        << <<where_column, where_value>> >>)
                          log == <<c.entry>> \o g.log \o u.log
                      IN  IF u.ret.kind = "raise" THEN Done(u.tbl, RetRaise, log)
                          ELSE Done(u.tbl, RetBool(TRUE), log)

\* ------------------------------------------------------------ the state
VARIABLES
    table,   \* the committed rows of the table, in rowid order
    pre,     \* the table as it was when the last call began
    call,    \* the last call: its operation and arguments
    ret,     \* what the last call returned
    stmts,   \* the statements the last call executed, in order
    \* two callers of update_json, each statement a step of its own
    cpc,     \* each caller's position in update_json
    cargs,   \* each caller's where_value and update_values
    cread,   \* what each caller's get_json returned
    cdict,   \* each caller's json_dict after the merge
    cret,    \* what each caller's update_json returned
    writer,  \* the caller whose UPDATE ran last (0: none yet)
    \* two threads calling execute on one SQL object, line by line
    epc,     \* each thread's position in the wrapper
    ewrite,  \* whether the thread's call is a write with commit=True
    open,    \* the threads whose connection (the local conn) is open
    curr,    \* self.curr: the thread whose connection the cursor is of (0: None)
    pend,    \* the rows each connection has written and not committed
    exc,     \* whether an exception is propagating in the thread's call
    failed,  \* whether the driver failed the call's own statement or commit
    ranOn,   \* the connection the call's statement was executed on (0: none)
    eout,    \* how the call ended: "ok", "raise" or "" (not yet)
    ncalls,  \* the calls each thread has begun
    \* SCHEMA.get_sql_create
    ddlIn,   \* the arguments: the Enum class (name, members) and table_name
    ddlOut   \* the text returned, in pieces (<< >>: not called yet)

seqVars  == <<pre, call, ret, stmts>>
concVars == <<cpc, cargs, cread, cdict, cret, writer>>
execVars == <<epc, ewrite, open, curr, pend, exc, failed, ranOn, eout, ncalls>>
ddlVars  == <<ddlIn, ddlOut>>
vars == <<table, seqVars, concVars, execVars, ddlVars>>

Callers == {1, 2}
Threads == {1, 2}

NoMap == << >>
Call(op, key, patch, values, where) ==
    [op |-> op, key |-> key, patch |-> patch, values |-> values, where |-> where]

\* The arguments the calls are tried with.
InsertMaps == {<< <<"k", v>>, <<"d", w>> >> : v \in KeyVals, w \in DocColVals}
UpdDocVals == {NullV, TextV(<< >>), TextV(Dumps(EmptyDoc))}
ValueMaps ==
    {<< >>}
    \cup {<< <<"k", v>> >> : v \in KeyVals}
    \cup {<< <<"d", w>> >> : w \in UpdDocVals}
WhereMaps ==
    {<< >>}
    \cup {<< <<"k", v>> >> : v \in KeyVals}
    \cup {<< <<"d", w>> >> : w \in UpdDocVals}
    \cup {<< <<"k", v>>, <<"d", w>> >> : v \in KeyVals, w \in {NullV, TextV(<< >>)}}

Idle == Call("idle", NullV, EmptyDoc, NoMap, NoMap)

\* No call made yet, in each part of the state.
SeqStart ==
    /\ pre = << >>
    /\ call = Idle
    /\ ret = RetNone
    /\ stmts = << >>
ConcStart ==
    /\ cpc = [p \in Callers |-> "idle"]
    /\ cargs = [p \in Callers |-> [key |-> NullV, patch |-> EmptyDoc]]
    /\ cread = [p \in Callers |-> RetNone]
    /\ cdict = [p \in Callers |-> EmptyDoc]
    /\ cret = [p \in Callers |-> RetNone]
    /\ writer = 0
ExecStart ==
    /\ epc = [t \in Threads |-> "idle"]
    /\ ewrite = [t \in Threads |-> FALSE]
    /\ open = {}
    /\ curr = 0
    /\ pend = [t \in Threads |-> << >>]
    /\ exc = [t \in Threads |-> FALSE]
    /\ failed = [t \in Threads |-> FALSE]
    /\ ranOn = [t \in Threads |-> 0]
    /\ eout = [t \in Threads |-> ""]
    /\ ncalls = [t \in Threads |-> 0]
DdlStart ==
    /\ ddlIn = [cls |-> "users", table_name |-> "", members |-> << >>]
    /\ ddlOut = << >>

\* A call begins when the caller holds no earlier result, and runs to its return.
Finish(c, r) ==
    /\ call = Idle
    /\ pre' = table
    /\ call' = c
    /\ table' = r.tbl
    /\ ret' = r.ret
    /\ stmts' = r.log
    /\ UNCHANGED <<concVars, execVars, ddlVars>>

Init ==
    /\ table = << >>
    /\ SeqStart
    /\ ConcStart
    /\ ExecStart
    /\ DdlStart

Insert ==
    \E values \in InsertMaps :
        /\ Len(table) < MaxRows
        /\ Finish(Call("insert", NullV, EmptyDoc, values, NoMap),
                  InsertOp(table, values))

Update ==
    \E values \in ValueMaps, where \in WhereMaps :
        Finish(Call("update", NullV, EmptyDoc, values, where),
               UpdateOp(table, values, where))

GetJson ==
    \E key \in KeyVals :
        Finish(Call("get_json", key, EmptyDoc, NoMap, NoMap),
               GetJsonOp(table, "d", "k", key))

UpdateJson ==
    \E key \in KeyVals, patch \in Docs :
        Finish(Call("update_json", key, patch, NoMap, NoMap),
               UpdateJsonOp(table, "d", "k", key, patch))

\* The caller is done with the result of the last call.
Return ==
    /\ call # Idle
    /\ call' = Idle
    /\ pre' = table
    /\ ret' = RetNone
    /\ stmts' = << >>
    /\ UNCHANGED <<table, concVars, execVars, ddlVars>>

Next == Insert \/ Update \/ GetJson \/ UpdateJson \/ Return

Spec == Init /\ [][Next]_vars

\* --------------------------------------------- what the claims speak of
\* The rows of tbl whose key column equals key, and the document column of
\* the only one.
RowsWith(tbl, key) == {j \in 1..Len(tbl) : tbl[j].k = key}
OnlyRow(tbl, key) == tbl[CHOOSE j \in RowsWith(tbl, key) : TRUE]
HasDocument(v) == v # NullV /\ v # TextV(<< >>)
\* The mapping a stored text is the serialisation of.
DocOfText(v) == CHOOSE d \in Docs : TextV(Dumps(d)) = v
IsWrite(entry) == entry.sql.verb \in {"UPDATE", "INSERT"}

\* ------------------------------------- execute, line by line, two threads
\* Two threads call execute on the same SQL object. Each line of the wrapper
\* (61-73) is a step; `conn` and `commit` are the wrapper's locals, self.curr
\* is the object's attribute, shared. The driver refuses a cursor used from a
\* thread that did not create its connection (sqlite3.connect is called with
\* the default check_same_thread) by raising ProgrammingError. A write
\* statement waits while another connection holds an uncommitted write; any
\* statement or commit may fail in the driver.
MaxCalls == 2       \* calls each thread makes

ReadSql  == CountSql(<<"k">>)
WriteSql == InsertSql(<<"k">>)
StmtParams(t) == <<IntV(t)>>

\* A slip in lines 67-72: the close after the call in place of in `finally`.
ConnCloseOnSuccess(opened, t, raised) == IF raised THEN opened ELSE opened \ {t}

\* finally: conn.close() (lines 71-72): on the way out, raised or not.
ConnClose(opened, t, raised) == opened \ {t}

\* Line 64: conn = sqlite3.connect(self.__path_db)
EConnect(t) ==
    /\ epc[t] = "idle"
    /\ ncalls[t] < MaxCalls
    /\ \E w \in BOOLEAN : ewrite' = [ewrite EXCEPT ![t] = w]
    /\ open' = open \cup {t}
    /\ epc' = [epc EXCEPT ![t] = "connected"]
    /\ exc' = [exc EXCEPT ![t] = FALSE]
    /\ failed' = [failed EXCEPT ![t] = FALSE]
    /\ ranOn' = [ranOn EXCEPT ![t] = 0]
    /\ eout' = [eout EXCEPT ![t] = ""]
    /\ ncalls' = [ncalls EXCEPT ![t] = @ + 1]
    /\ UNCHANGED <<table, curr, pend, seqVars, concVars, ddlVars>>

\* Lines 65-66: self.curr = conn.cursor(); commit = kwargs.get('commit', False)
ECursor(t) ==
    /\ epc[t] = "connected"
    /\ curr' = t
    /\ epc' = [epc EXCEPT ![t] = "wrapped"]
    /\ UNCHANGED <<table, ewrite, open, pend, exc, failed, ranOn, eout, ncalls,
                   seqVars, concVars, ddlVars>>

\* Lines 103/105 with self.curr another thread's cursor: ProgrammingError,
\* the statement is not executed.
EStmtForeign(t) ==
    /\ epc[t] = "wrapped"
    /\ curr # t
    /\ exc' = [exc EXCEPT ![t] = TRUE]
    /\ epc' = [epc EXCEPT ![t] = "finally"]
    /\ UNCHANGED <<table, ewrite, open, curr, pend, failed, ranOn, eout, ncalls,
                   seqVars, concVars, ddlVars>>

\* Lines 103/105 with the call's own cursor, the driver failing the statement.
EStmtFail(t) ==
    /\ epc[t] = "wrapped"
    /\ curr = t
    /\ ranOn' = [ranOn EXCEPT ![t] = curr]
    /\ exc' = [exc EXCEPT ![t] = TRUE]
    /\ failed' = [failed EXCEPT ![t] = TRUE]
    /\ epc' = [epc EXCEPT ![t] = "finally"]
    /\ UNCHANGED <<table, ewrite, open, curr, pend, eout, ncalls, seqVars, concVars, ddlVars>>

\* Lines 103-110 with the call's own cursor: the statement runs and is fetched.
EStmtRun(t) ==
    /\ epc[t] = "wrapped"
    /\ curr = t
    /\ ewrite[t] => \A u \in Threads \ {t} : pend[u] = << >>
    /\ LET r == DriverRun(table, IF ewrite[t] THEN WriteSql ELSE ReadSql,
                          StmtParams(t))
       IN  pend' = [pend EXCEPT ![curr] = SubSeq(r.tbl, Len(table) + 1, Len(r.tbl))]
    /\ ranOn' = [ranOn EXCEPT ![t] = curr]
    /\ epc' = [epc EXCEPT ![t] = "ran"]
    /\ UNCHANGED <<table, ewrite, open, curr, exc, failed, eout, ncalls,
                   seqVars, concVars, ddlVars>>

\* Line 69 with commit true: conn.commit() makes the connection's writes durable.
ECommit(t) ==
    /\ epc[t] = "ran"
    /\ ewrite[t]
    /\ table' = table \o pend[t]
    /\ pend' = [pend EXCEPT ![t] = << >>]
    /\ epc' = [epc EXCEPT ![t] = "finally"]
    /\ UNCHANGED <<ewrite, open, curr, exc, failed, ranOn, eout, ncalls,
                   seqVars, concVars, ddlVars>>

\* Line 69 with commit true, the driver failing the commit.
ECommitFail(t) ==
    /\ epc[t] = "ran"
    /\ ewrite[t]
    /\ exc' = [exc EXCEPT ![t] = TRUE]
    /\ failed' = [failed EXCEPT ![t] = TRUE]
    /\ epc' = [epc EXCEPT ![t] = "finally"]
    /\ UNCHANGED <<table, ewrite, open, curr, pend, ranOn, eout, ncalls,
                   seqVars, concVars, ddlVars>>

\* Line 69 with commit false: nothing to do.
ENoCommit(t) ==
    /\ epc[t] = "ran"
    /\ ~ewrite[t]
    /\ epc' = [epc EXCEPT ![t] = "finally"]
    /\ UNCHANGED <<table, ewrite, open, curr, pend, exc, failed, ranOn, eout, ncalls,
                   seqVars, concVars, ddlVars>>

\* Lines 70-72: conn.close(), which drops what the connection did not commit,
\* then the result is returned or the exception leaves the wrapper.
EClose(t) ==
    /\ epc[t] = "finally"
    /\ open' = ConnClose(open, t, exc[t])
    /\ pend' = [pend EXCEPT ![t] = << >>]
    /\ eout' = [eout EXCEPT ![t] = IF exc[t] THEN "raise" ELSE "ok"]
    /\ epc' = [epc EXCEPT ![t] = "returned"]
    /\ UNCHANGED <<table, ewrite, curr, exc, failed, ranOn, ncalls, seqVars, concVars, ddlVars>>

\* The thread goes on to its next call.
EReturn(t) ==
    /\ epc[t] = "returned"
    /\ epc' = [epc EXCEPT ![t] = "idle"]
    /\ UNCHANGED <<table, ewrite, open, curr, pend, exc, failed, ranOn, eout, ncalls,
                   seqVars, concVars, ddlVars>>

ExecNext ==
    \E t \in Threads :
        \/ EConnect(t)
        \/ ECursor(t)
        \/ EStmtForeign(t)
        \/ EStmtFail(t)
        \/ EStmtRun(t)
        \/ ECommit(t)
        \/ ECommitFail(t)
        \/ ENoCommit(t)
        \/ EClose(t)
        \/ EReturn(t)

SpecExec == Init /\ [][ExecNext]_vars

\* C7: guaranteed release. A call that has returned, with a result or with an
\* exception, has closed the connection it opened, and a failure of the
\* driver in its statement or commit has left the wrapper as an exception; so
\* with every thread between calls no connection is open.
C7_ConnectionReleased ==
    \A t \in Threads :
        epc[t] \in {"idle", "returned"} =>
            /\ t \notin open
            /\ (epc[t] = "returned" /\ failed[t]) => eout[t] = "raise"

\* A call whose statement failed in the driver has returned, and no
\* connection is open.
C7_Witness ==
    \E t \in Threads :
        /\ epc[t] = "returned"
        /\ failed[t]
        /\ eout[t] = "raise"
        /\ open = {}

\* C8: call independence. Every call that is past its statement executed it
\* on the cursor of the connection the same call opened, also when two calls
\* on the same SQL object interleave.
C8_CallIndependence ==
    \A t \in Threads :
        epc[t] \in {"ran", "finally", "returned"} => ranOn[t] = t

\* ------------------------- update_json, statement by statement, two callers
\* Two callers, each with an SQL object of its own on the same database file,
\* run update_json. Every execute call is one step (its connection is opened,
\* used and closed within it, and an UPDATE is committed by it); what a caller
\* computes between two statements belongs to the step of the earlier one.
\* The table the callers find holds up to MaxRows rows.
StartDocVals == {NullV, TextV(Dumps([x \in {"a"} |-> 1]))}
StartRows == [k : KeyVals, d : StartDocVals]
StartTables == UNION {[1..n -> StartRows] : n \in 1..MaxRows}
Patches == Docs

ConcInit ==
    /\ table \in StartTables
    /\ SeqStart
    /\ ConcStart
    /\ ExecStart
    /\ DdlStart

KeyOf(p) == cargs[p].key
ConcStep(p, to) ==
    /\ cpc' = [cpc EXCEPT ![p] = to]
    /\ UNCHANGED <<seqVars, execVars, ddlVars>>

\* update_json is called.
UjCall(p) ==
    /\ cpc[p] = "idle"
    /\ \E key \in KeyVals, patch \in Patches :
          cargs' = [cargs EXCEPT ![p] = [key |-> key, patch |-> patch]]
    /\ ConcStep(p, "uj_count")
    /\ UNCHANGED <<table, cread, cdict, cret, writer>>

\* Lines 221-222: the COUNT of update_json.
UjCount(p) ==
    /\ cpc[p] = "uj_count"
    /\ LET c == Execute(table, CountSql(<<"k">>), <<KeyOf(p)>>, 1, FALSE)
       IN  IF c.rows[1][1].i # 1
           THEN /\ cret' = [cret EXCEPT ![p] = RetBool(FALSE)]
                /\ ConcStep(p, "done")
           ELSE /\ cret' = cret
                /\ ConcStep(p, "gj_count")
    /\ UNCHANGED <<table, cargs, cread, cdict, writer>>

\* Line 226-230 once get_json has returned: the merge into json_dict.
Merged(p, got) ==
    /\ cread' = [cread EXCEPT ![p] = got]
    /\ cdict' = [cdict EXCEPT ![p] = MergeDoc(got, cargs[p].patch)]

\* Lines 191-192: the COUNT of get_json, called from line 224.
GjCount(p) ==
    /\ cpc[p] = "gj_count"
    /\ LET c == Execute(table, CountSql(<<"k">>), <<KeyOf(p)>>, 1, FALSE)
       IN  IF c.rows[1][1].i # 1
           THEN /\ Merged(p, RetNone)
                /\ ConcStep(p, "upd_count")
           ELSE /\ UNCHANGED <<cread, cdict>>
                /\ ConcStep(p, "gj_select")
    /\ UNCHANGED <<table, cargs, cret, writer>>

\* Lines 194-198: the SELECT of get_json and the parse, then the merge.
GjSelect(p) ==
    /\ cpc[p] = "gj_select"
    /\ LET e == Execute(table, SelectSql("d", <<"k">>), <<KeyOf(p)>>, 1, FALSE)
       IN  IF e.none
           THEN /\ cret' = [cret EXCEPT ![p] = RetRaise]
                /\ UNCHANGED <<cread, cdict>>
                /\ ConcStep(p, "done")
           ELSE /\ Merged(p, IF Truthy(e.rows[1][1])
                             THEN RetDoc(Loads(e.rows[1][1].s)) ELSE RetNone)
                /\ cret' = cret
                /\ ConcStep(p, "upd_count")
    /\ UNCHANGED <<table, cargs, writer>>

\* Lines 160-165: the COUNT of update, called from line 232.
UpdCount(p) ==
    /\ cpc[p] = "upd_count"
    /\ LET c == Execute(table, CountSql(WhereStr(<< <<"k", KeyOf(p)>> >>)),
                        <<KeyOf(p)>>, 1, FALSE)
       IN  IF c.rows[1][1].i # 0
           THEN /\ cret' = cret
                /\ ConcStep(p, "upd_update")
           ELSE /\ cret' = [cret EXCEPT ![p] = RetBool(TRUE)]
                /\ ConcStep(p, "done")
    /\ UNCHANGED <<table, cargs, cread, cdict, writer>>

\* Lines 166-171 and 233: the UPDATE, committed, and update_json returns True.
UpdUpdate(p) ==
    /\ cpc[p] = "upd_update"
    /\ LET values == << <<"d", TextV(Dumps(cdict[p]))>> >>
           where  == << <<"k", KeyOf(p)>> >>
           u == Execute(table, UpdateSql(ValuesStr(values), WhereStr(where)),
                        UpdateParams(values, where), 0, TRUE)
       IN  table' = u.tbl
    /\ writer' = p
    /\ cret' = [cret EXCEPT ![p] = RetBool(TRUE)]
    /\ ConcStep(p, "done")
    /\ UNCHANGED <<cargs, cread, cdict>>

ConcNext ==
    \E p \in Callers :
        \/ UjCall(p)
        \/ UjCount(p)
        \/ GjCount(p)
        \/ GjSelect(p)
        \/ UpdCount(p)
        \/ UpdUpdate(p)

SpecConc == ConcInit /\ [][ConcNext]_vars

BothTrue == \A p \in Callers : cpc[p] = "done" /\ cret[p] = RetBool(TRUE)

MaxFields == 2      \* members of the Enum class

NoneD    == [t |-> "none", i |-> 0, s |-> "", b |-> FALSE]
IntD(n)  == [t |-> "int", i |-> n, s |-> "", b |-> FALSE]
StrD(x)  == [t |-> "str", i |-> 0, s |-> x, b |-> FALSE]
BoolD(v) == [t |-> "bool", i |-> 0, s |-> "", b |-> v]
Dflts == {NoneD, IntD(0), StrD(""), BoolD(FALSE)}
Types == {[enum |-> TRUE, s |-> "INTEGER"], [enum |-> FALSE, s |-> "DECIMAL(10,5)"]}
\* The names of the docstring's example (lines 328-330), one per position.
NameAt == <<"id", "name", "last_name", "firm">>
\* What a member says besides its position and name.
FieldCores ==
    [type : Types, notnull : BOOLEAN, dflt_value : Dflts, pk : BOOLEAN,
     unique : BOOLEAN]
\* SCHEMA.FIELD(column, name, type, notnull, dflt_value, pk, unique)
Field(n, core) ==
    [column |-> n - 1, name |-> NameAt[n], type |-> core.type,
     notnull |-> core.notnull, dflt_value |-> core.dflt_value, pk |-> core.pk,
     unique |-> core.unique]

\* repr(value) of a default: 0, '', False, ...
Repr(v) ==
    CASE v.t = "none" -> "None"
      [] v.t = "int"  -> IF v.i = 0 THEN "0" ELSE NumStr[v.i]
      [] v.t = "str"  -> "'" \o v.s \o "'"
      [] v.t = "bool" -> IF v.b THEN "True" ELSE "False"

\* A slip in line 352: `if field.dflt_value:` in place of `is not None`.
HasDefaultTruthy(v) ==
    CASE v.t = "none" -> FALSE
      [] v.t = "int"  -> v.i # 0
      [] v.t = "str"  -> v.s # ""
      [] v.t = "bool" -> v.b

\* Line 352: field.dflt_value is not None
HasDefault(v) == v.t # "none"

\* A slip in lines 346-351: PRIMARY KEY appended before UNIQUE.
ColPartsPkFirst(field) ==
    <<field.name>>
    \o <<field.type.s>>
    \o (IF field.notnull THEN <<"NOT NULL">> ELSE << >>)
    \o (IF field.pk THEN <<"PRIMARY KEY">> ELSE << >>)
    \o (IF field.unique THEN <<"UNIQUE">> ELSE << >>)
    \o (IF HasDefault(field.dflt_value)
        THEN <<"DEFAULT " \o Repr(field.dflt_value)>> ELSE << >>)

\* member.name of a member of `datatypes` (lines 31-35).
EnumName(type) == type.s

\* Lines 339-353: col_parts of one member.
ColParts(field) ==
    <<field.name>>
    \o (IF field.type.enum THEN <<EnumName(field.type)>> ELSE <<field.type.s>>)
    \o (IF field.notnull THEN <<"NOT NULL">> ELSE << >>)
    \o (IF field.unique THEN <<"UNIQUE">> ELSE << >>)
    \o (IF field.pk THEN <<"PRIMARY KEY">> ELSE << >>)
    \o (IF HasDefault(field.dflt_value)
        THEN <<"DEFAULT " \o Repr(field.dflt_value)>> ELSE << >>)

\* " ".join(col_parts)
ColumnText(field) ==
    LET col_parts == ColParts(field)
    IN  JoinSeqs([j \in 1..Len(col_parts) |-> <<col_parts[j]>>], <<" ">>)

\* Lines 334-358.
GetSqlCreateOp(cls, members, table_name_arg) ==
    LET table_name == IF table_name_arg # "" THEN table_name_arg ELSE cls
        columns == [j \in 1..Len(members) |-> ColumnText(members[j])]
    IN  <<"CREATE TABLE IF NOT EXISTS ", table_name, " (\n    ">>
        \o JoinSeqs(columns, <<",\n    ">>)
        \o <<"\n);">>

DdlInit ==
    /\ table = << >>
    /\ SeqStart
    /\ ConcStart
    /\ ExecStart
    /\ \E n \in 0..MaxFields, table_name \in {"", "t"} :
          \E cores \in [1..n -> FieldCores] :
              ddlIn = [cls |-> "users", table_name |-> table_name,
                       members |-> [j \in 1..n |-> Field(j, cores[j])]]
    /\ ddlOut = << >>

GetSqlCreate ==
    /\ ddlOut = << >>
    /\ ddlOut' = GetSqlCreateOp(ddlIn.cls, ddlIn.members, ddlIn.table_name)
    /\ UNCHANGED <<table, ddlIn, seqVars, concVars, execVars>>

DdlNext == GetSqlCreate

SpecDDL == DdlInit /\ [][DdlNext]_vars

RECURSIVE SplitOn(_, _)
\* The runs of `pieces` between occurrences of the piece `sep`.
SplitOn(pieces, sep) ==
    IF \A j \in 1..Len(pieces) : pieces[j] # sep THEN <<pieces>>
    ELSE LET at == CHOOSE j \in 1..Len(pieces) :
                      pieces[j] = sep /\ \A n \in 1..(j - 1) : pieces[n] # sep
         IN  <<SubSeq(pieces, 1, at - 1)>>
             \o SplitOn(SubSeq(pieces, at + 1, Len(pieces)), sep)

\* The column clauses of a returned text, each as its words.
Clauses(out) ==
    LET body == SubSeq(out, 4, Len(out) - 1)
        raw  == SplitOn(body, ",\n    ")
    IN  [j \in 1..Len(raw) |-> SelectSeq(raw[j], LAMBDA w : w # " ")]
DefaultWords == {"DEFAULT 0", "DEFAULT ''", "DEFAULT False"}
Called == ddlOut # << >>

\* C9: the column clause of a member holds a DEFAULT clause exactly when its
\* dflt_value is not None; for 0 it is `DEFAULT 0`, for the empty string
\* `DEFAULT ''`, for False `DEFAULT False`.
C9_DefaultClause ==
    (Called /\ ddlIn.members # << >>) =>
        LET cl == Clauses(ddlOut)
        IN  /\ Len(cl) = Len(ddlIn.members)
            /\ \A j \in 1..Len(ddlIn.members) :
                  LET v == ddlIn.members[j].dflt_value
                      c == cl[j]
                      words == {c[n] : n \in 1..Len(c)}
                  IN  /\ (words \cap DefaultWords # {}) <=> (v # NoneD)
                      /\ v = IntD(0) => "DEFAULT 0" \in words
                      /\ v = StrD("") => "DEFAULT ''" \in words
                      /\ v = BoolD(FALSE) => "DEFAULT False" \in words

\* A class with a member whose default is 0 and one with no default.
C9_Witness ==
    /\ Called
    /\ \E j, n \in 1..Len(ddlIn.members) :
          /\ ddlIn.members[j].dflt_value = IntD(0)
          /\ ddlIn.members[n].dflt_value = NoneD
          /\ Clauses(ddlOut)[j][Len(Clauses(ddlOut)[j])] = "DEFAULT 0"

\* The words a member's clause is to hold, in their order.
FlagOrder == <<"NOT NULL", "UNIQUE", "PRIMARY KEY">>
FlagSet(f) ==
    (IF f.notnull THEN {"NOT NULL"} ELSE {})
    \cup (IF f.unique THEN {"UNIQUE"} ELSE {})
    \cup (IF f.pk THEN {"PRIMARY KEY"} ELSE {})

\* C10: the text is `CREATE TABLE IF NOT EXISTS <name> (` ... `);`, <name>
\* being table_name or, without one, the class's name, with one column clause
\* per member, in the members' order, each holding the name, the type, then
\* NOT NULL, UNIQUE, PRIMARY KEY (each iff set) in this order, then the
\* DEFAULT clause iff there is a default.
C10_ShapeAndOrder ==
    Called =>
        /\ SubSeq(ddlOut, 1, 3) =
             <<"CREATE TABLE IF NOT EXISTS ",
               IF ddlIn.table_name = "" THEN ddlIn.cls ELSE ddlIn.table_name,
               " (\n    ">>
        /\ ddlOut[Len(ddlOut)] = "\n);"
        /\ ddlIn.members # << >> =>
             LET cl == Clauses(ddlOut)
             IN
             /\ Len(cl) = Len(ddlIn.members)
             /\ \A j \in 1..Len(ddlIn.members) :
                  LET f == ddlIn.members[j]
                      c == cl[j]
                      flags == SelectSeq(FlagOrder, LAMBDA w : w \in FlagSet(f))
                      nd == IF f.dflt_value = NoneD THEN 0 ELSE 1
                  IN  /\ Len(c) = 2 + Len(flags) + nd
                      /\ c[1] = f.name
                      /\ c[2] = f.type.s
                      /\ SubSeq(c, 3, 2 + Len(flags)) = flags
                      /\ nd = 1 => c[Len(c)] \in DefaultWords
        /\ ddlIn.members = << >> => Len(ddlOut) = 4

\* Two members, the second with every flag and a default.
C10_Witness ==
    /\ Called
    /\ Len(ddlIn.members) = 2
    /\ ddlIn.table_name = "t"
    /\ LET f == ddlIn.members[2]
       IN  f.notnull /\ f.unique /\ f.pk /\ f.dflt_value = StrD("")
    /\ Clauses(ddlOut)[2] =
          <<"name", ddlIn.members[2].type.s, "NOT NULL", "UNIQUE", "PRIMARY KEY",
            "DEFAULT ''">>

\* ------------------------------------------- claims on the single caller

\* C1: shallow merge round trip. After update_json(key, P) on a key matched by
\* exactly one row, get_json(key) returns P when the row held no document, and
\* otherwise the mapping that has P[x] for every x in P, D[x] for every x of the
\* stored document D that is not in P, and no other key.
C1_MergeRoundTrip ==
    (call.op = "update_json" /\ Cardinality(RowsWith(pre, call.key)) = 1) =>
        LET v == OnlyRow(pre, call.key).d
            P == call.patch
            R == GetJsonOp(table, "d", "k", call.key).ret
        IN  /\ ret = RetBool(TRUE)
            /\ R.kind = "doc"
            /\ IF ~HasDocument(v) THEN R.doc = P
               ELSE LET D == DocOfText(v)
                    IN  /\ DOMAIN R.doc = DOMAIN D \cup DOMAIN P
                        /\ \A x \in DOMAIN P : R.doc[x] = P[x]
                        /\ \A x \in DOMAIN D \ DOMAIN P : R.doc[x] = D[x]

\* A merge that keeps a key of the stored document and overwrites another.
C1_Witness ==
    /\ call.op = "update_json"
    /\ Cardinality(RowsWith(pre, call.key)) = 1
    /\ HasDocument(OnlyRow(pre, call.key).d)
    /\ LET D == DocOfText(OnlyRow(pre, call.key).d)
       IN  /\ DOMAIN D \ DOMAIN call.patch # {}
           /\ \E x \in DOMAIN D \cap DOMAIN call.patch : D[x] # call.patch[x]
    /\ table # pre

\* C2: write guard. When the rows with the key are not exactly one, update_json
\* returns False, executes no UPDATE or INSERT, and leaves the table as it was.
C2_WriteGuard ==
    (call.op = "update_json" /\ Cardinality(RowsWith(pre, call.key)) # 1) =>
        /\ ret = RetBool(FALSE)
        /\ table = pre
        /\ \A j \in 1..Len(stmts) : ~IsWrite(stmts[j])

\* update_json on a key that two rows carry, each with a document.
C2_Witness ==
    /\ call.op = "update_json"
    /\ Cardinality(RowsWith(pre, call.key)) = 2
    /\ \A j \in RowsWith(pre, call.key) : HasDocument(pre[j].d)
    /\ call.patch # EmptyDoc
    /\ ret = RetBool(FALSE)

\* C3: get_json returns None when the rows with the key are not exactly one,
\* None when the only such row's document column is NULL or the empty text,
\* and otherwise the document stored there; it never changes the table.
C3_GetJsonResult ==
    call.op = "get_json" =>
        /\ table = pre
        /\ \A j \in 1..Len(stmts) : ~IsWrite(stmts[j])
        /\ IF Cardinality(RowsWith(pre, call.key)) # 1 THEN ret = RetNone
           ELSE LET v == OnlyRow(pre, call.key).d
                IN  IF ~HasDocument(v) THEN ret = RetNone
                    ELSE ret = RetDoc(DocOfText(v))

\* get_json on a key that two rows carry, each with a document: None.
C3_Witness ==
    /\ call.op = "get_json"
    /\ Cardinality(RowsWith(pre, call.key)) = 2
    /\ \A j \in RowsWith(pre, call.key) : HasDocument(pre[j].d)
    /\ ret = RetNone

\* C4: update guard. update with an empty `where` fails with an error and
\* executes no UPDATE, so the table is as it was.
C4_UpdateGuard ==
    (call.op = "update" /\ call.where = << >>) =>
        /\ ret = RetRaise
        /\ table = pre
        /\ \A j \in 1..Len(stmts) : ~IsWrite(stmts[j])

\* update with an empty `where` and a value to set, on a table that has rows.
C4_Witness ==
    /\ call.op = "update"
    /\ call.where = << >>
    /\ call.values # << >>
    /\ pre # << >>
    /\ ret = RetRaise

\* The rows a `where` mapping selects: every column equal to its value.
Selected(tbl, where) ==
    {j \in 1..Len(tbl) :
        \A n \in 1..Len(where) : where[n][2] # NullV /\ tbl[j][where[n][1]] = where[n][2]}
\* A row with the values of a mapping set.
WithValues(row, values) ==
    [c \in Cols |-> IF \E n \in 1..Len(values) : values[n][1] = c
                    THEN values[CHOOSE n \in 1..Len(values) : values[n][1] = c][2]
                    ELSE row[c]]

\* C6: silent skip. update with a non-empty `where` first counts the rows that
\* match; with none it executes no UPDATE, raises nothing, returns None and
\* leaves the table as it was; otherwise it executes one UPDATE, committed,
\* whose parameters are the SET values followed by the WHERE values, which
\* sets the values in the matching rows and in no other.
C6_SilentSkip ==
    (call.op = "update" /\ call.where # << >>) =>
        /\ Len(stmts) >= 1
        /\ stmts[1].sql.verb = "COUNT"
        /\ stmts[1].params = MapVals(call.where)
        /\ IF Selected(pre, call.where) = {}
           THEN /\ Len(stmts) = 1
                /\ ret = RetNone
                /\ table = pre
           ELSE /\ Len(stmts) = 2
                /\ stmts[2].sql.verb = "UPDATE"
                /\ stmts[2].commit
                /\ stmts[2].params = MapVals(call.values) \o MapVals(call.where)
                /\ call.values # << >> =>
                     /\ ret = RetNone
                     /\ Len(table) = Len(pre)
                     /\ \A j \in 1..Len(pre) :
                          table[j] = IF j \in Selected(pre, call.where)
                                     THEN WithValues(pre[j], call.values)
                                     ELSE pre[j]

\* An update that is skipped: rows exist, none matches, nothing is raised.
C6_Witness ==
    /\ call.op = "update"
    /\ call.where # << >>
    /\ call.values # << >>
    /\ pre # << >>
    /\ Selected(pre, call.where) = {}
    /\ Len(stmts) = 1
    /\ ret = RetNone

====
